---- MODULE Spec2Model ----
(***************************************************************************)
(* Model of src/src/map.rs (struct Map: terrain generation with memoised   *)
(* erosion levels, the risk sum, the (coordinate, tool) graph and the      *)
(* shortest-distance query) and of the calls src/src/main.rs makes.        *)
(*                                                                         *)
(* Coordinates are pairs <<x, y>>, graph node labels are triples           *)
(* <<x, y, tool>>, graph edges are triples <<a, b, w>> of two node indices *)
(* (1-based positions in the node list) and a weight.                      *)
(* The field Map::distances (map.rs:47) is never read or written and is    *)
(* left out.                                                               *)
(***************************************************************************)
EXTENDS Integers, Sequences, FiniteSets, TLC

VARIABLES
    depth,           \* Map::depth
    target,          \* Map::target
    regions,         \* Map::regions, a function from the cached coordinates
    erosion_levels,  \* Map::erosion_levels, likewise
    pc,              \* position of the running program
    call,            \* the call in progress or just returned, with its arguments
    ret,             \* what the call returned (or where it panicked)
    bound,           \* find_distance_to_target: the last coordinate of build_graph's loops
    nodes,           \* find_distance_to_target: graph, the node labels by index
    first,           \* find_distance_to_target: graph, the first index of every label
    edges,           \* find_distance_to_target: graph, the edges in insertion order
    zero_index,      \* find_distance_to_target: zero_index
    target_index,    \* find_distance_to_target: target_index
    scores,          \* dijkstra: scores
    visited,         \* dijkstra: visited
    visit_next,      \* dijkstra: visit_next, the heap, as a set of <<score, node>>
    prev             \* history: bound and result of the previous distance query

vars == <<depth, target, regions, erosion_levels, pc, call, ret, bound, nodes,
          first, edges, zero_index, target_index, scores, visited, visit_next, prev>>

------------------------------------------------------------------------------
(* Bounds of the model. *)

MaxDepth == 2
MaxTarget == 2
MaxGrow == 1

------------------------------------------------------------------------------
(* Program constants. *)

MOVE_COST == 1
CHANGE_GEAR_COST == 7
EROSION_MODULUS == 20183
X_FACTOR == 16807
Y_FACTOR == 48271
BOUND_FACTOR == 3
REGION_KINDS == 3
RefDepth == 510
RefTargetX == 10
RefTargetY == 10

------------------------------------------------------------------------------
(* RegionType and Tool. *)

\* get_tools with Wet permitting the torch.
get_tools_wet_torch(region_type) ==
    CASE region_type = "Rocky" -> <<"ClimbingGear", "Torch">>
      [] region_type = "Wet" -> <<"ClimbingGear", "Torch">>
      [] region_type = "Narrow" -> <<"Torch", "None">>

get_tools(region_type) ==
    CASE region_type = "Rocky" -> <<"ClimbingGear", "Torch">>
      [] region_type = "Wet" -> <<"ClimbingGear", "None">>
      [] region_type = "Narrow" -> <<"Torch", "None">>

\* <[Tool]>::contains
contains(tools, tool) == \E i \in 1..Len(tools) : tools[i] = tool

------------------------------------------------------------------------------
(* Terrain: the memoised recurrence.  Every operator that takes &mut self   *)
(* takes the two caches as a record m = [regions, erosion_levels] and       *)
(* returns the caches it leaves together with its value.                    *)

RECURSIVE get_erosion_level(_, _)
RECURSIVE get_geologic_index(_, _)

\* get_geologic_index without the check of line 160: the target is met only by the
\* arm of line 168, after the arms of the two axes.
get_geologic_index_late_target(m, coords) ==
    CASE coords = <<0, 0>> -> [m |-> m, val |-> 0]
      [] coords[1] = 0 -> [m |-> m, val |-> coords[2] * Y_FACTOR]
      [] coords[2] = 0 -> [m |-> m, val |-> coords[1] * X_FACTOR]
      [] coords = target -> [m |-> m, val |-> 0]
      [] OTHER ->
           LET a == get_erosion_level(m, <<coords[1] - 1, coords[2]>>)
               b == get_erosion_level(a.m, <<coords[1], coords[2] - 1>>)
           IN  [m |-> b.m, val |-> a.val * b.val]

get_geologic_index(m, coords) ==
    IF coords = target
    THEN [m |-> m, val |-> 0]
    ELSE CASE coords = <<0, 0>> -> [m |-> m, val |-> 0]
           [] coords[1] = 0 -> [m |-> m, val |-> coords[2] * Y_FACTOR]
           [] coords[2] = 0 -> [m |-> m, val |-> coords[1] * X_FACTOR]
           [] coords = target -> [m |-> m, val |-> 0]
           [] OTHER ->
                LET a == get_erosion_level(m, <<coords[1] - 1, coords[2]>>)
                    b == get_erosion_level(a.m, <<coords[1], coords[2] - 1>>)
                IN  [m |-> b.m, val |-> a.val * b.val]

\* get_erosion_level without the reduction modulo 20183.
get_erosion_level_no_modulus(m, coords) ==
    IF coords \in DOMAIN m.erosion_levels
    THEN [m |-> m, val |-> m.erosion_levels[coords]]
    ELSE LET g == get_geologic_index(m, coords)
             erosion_level == g.val + depth
         IN  [m |-> [g.m EXCEPT !.erosion_levels = @ @@ (coords :> erosion_level)],
              val |-> erosion_level]

get_erosion_level(m, coords) ==
    IF coords \in DOMAIN m.erosion_levels
    THEN [m |-> m, val |-> m.erosion_levels[coords]]
    ELSE LET g == get_geologic_index(m, coords)
             erosion_level == (g.val + depth) % EROSION_MODULUS
         IN  [m |-> [g.m EXCEPT !.erosion_levels = @ @@ (coords :> erosion_level)],
              val |-> erosion_level]

region_of(level) ==
    CASE level % REGION_KINDS = 0 -> "Rocky"
      [] level % REGION_KINDS = 1 -> "Wet"
      [] level % REGION_KINDS = 2 -> "Narrow"

get_region_type(m, coords) ==
    IF coords \in DOMAIN m.regions
    THEN [m |-> m, val |-> m.regions[coords]]
    ELSE LET e == get_erosion_level(m, coords)
             region_type == region_of(e.val)
         IN  [m |-> [e.m EXCEPT !.regions = @ @@ (coords :> region_type)],
              val |-> region_type]

------------------------------------------------------------------------------
(* get_risk_level. *)

\* a..b, the last value left out.
range_exclusive(a, b) == a .. (b - 1)

\* a..=b
range_inclusive(a, b) == a .. b

risk_of(region_type) ==
    CASE region_type = "Rocky" -> 0
      [] region_type = "Wet" -> 1
      [] region_type = "Narrow" -> 2

\* The inner loop, for y in from.1..=to.1, from the loop state s = [m, risk_level, y].
RECURSIVE risk_column(_, _, _)
risk_column(s, x, to_y) ==
    IF s.y \notin range_inclusive(s.y, to_y)
    THEN s
    ELSE LET r == get_region_type(s.m, <<x, s.y>>)
         IN  risk_column([m |-> r.m,
                          risk_level |-> s.risk_level + risk_of(r.val),
                          y |-> s.y + 1], x, to_y)

\* The outer loop, for x in from.0..=to.0, from the loop state s = [m, risk_level, x].
RECURSIVE risk_rows(_, _, _)
risk_rows(s, from, to) ==
    IF s.x \notin range_inclusive(s.x, to[1])
    THEN s
    ELSE LET c == risk_column([m |-> s.m, risk_level |-> s.risk_level, y |-> from[2]],
                              s.x, to[2])
         IN  risk_rows([m |-> c.m, risk_level |-> c.risk_level, x |-> s.x + 1], from, to)

\* get_risk_level that puts the corners in order first.
get_risk_level_ordered(m, from, to) ==
    LET lo(a, b) == IF a <= b THEN a ELSE b
        hi(a, b) == IF a <= b THEN b ELSE a
        f == <<lo(from[1], to[1]), lo(from[2], to[2])>>
        t == <<hi(from[1], to[1]), hi(from[2], to[2])>>
    IN  risk_rows([m |-> m, risk_level |-> 0, x |-> f[1]], f, t)

get_risk_level(m, from, to) ==
    risk_rows([m |-> m, risk_level |-> 0, x |-> from[1]], from, to)

------------------------------------------------------------------------------
(* build_graph.  The bound b = <<bx, by>> is the last coordinate of the two *)
(* loops of lines 87-88; find_distance_to_target builds with Bound.         *)

Bound == <<target[1] * BOUND_FACTOR, target[2] * BOUND_FACTOR>>

\* add_node that takes the index of the last node for the index of the new one.
add_node_off_by_one(g, label) ==
    [nodes |-> Append(g.nodes, label),
     first |-> IF label \in DOMAIN g.first
               THEN g.first
               ELSE g.first @@ (label :> Len(g.nodes))]

\* graph.add_node(label), on g = [nodes, first]: the label gets the next index.
\* first tabulates what graph.node_indices().find(|n| graph[*n] == label) finds, the
\* least index that carries the label, so that a lookup does not scan the nodes.
add_node(g, label) ==
    [nodes |-> Append(g.nodes, label),
     first |-> IF label \in DOMAIN g.first
               THEN g.first
               ELSE g.first @@ (label :> Len(g.nodes) + 1)]

\* for tool in tools.iter() { graph.add_node((x, y, *tool)); }, from s = [g, i].
RECURSIVE add_nodes(_, _, _, _)
add_nodes(s, x, y, tools) ==
    IF s.i > Len(tools)
    THEN s
    ELSE add_nodes([g |-> add_node(s.g, <<x, y, tools[s.i]>>), i |-> s.i + 1], x, y, tools)

\* The inner loop, for y in 0..=by, from the loop state s = [m, g, y].
RECURSIVE node_column(_, _, _)
node_column(s, x, by) ==
    IF s.y \notin range_inclusive(s.y, by)
    THEN s
    ELSE LET r == get_region_type(s.m, <<x, s.y>>)
         IN  node_column([m |-> r.m,
                          g |-> add_nodes([g |-> s.g, i |-> 1], x, s.y, get_tools(r.val)).g,
                          y |-> s.y + 1], x, by)

\* The outer loop, for x in 0..=bx, from the loop state s = [m, g, x].
RECURSIVE node_rows(_, _)
node_rows(s, b) ==
    IF s.x \notin range_inclusive(s.x, b[1])
    THEN s
    ELSE LET c == node_column([m |-> s.m, g |-> s.g, y |-> 0], s.x, b[2])
         IN  node_rows([m |-> c.m, g |-> c.g, x |-> s.x + 1], b)

\* graph.node_indices().find(|n| graph[*n] == label): the first index, 0 for None.
find_node(fi, label) ==
    IF label \in DOMAIN fi THEN fi[label] ELSE 0

\* get_neighbours that counts the coordinate itself among its neighbours.
get_neighbours_and_self(coords) ==
    <<coords, (<<coords[1] + 1, coords[2]>>), (<<coords[1], coords[2] + 1>>)>>

get_neighbours(coords) ==
    <<(<<coords[1] + 1, coords[2]>>), (<<coords[1], coords[2] + 1>>)>>

\* edge_weight that asks whether the held tool, not the neighbour's, is permitted here.
edge_weight_held(held, current_tools, tool) ==
    IF tool = held
    THEN MOVE_COST
    ELSE IF contains(current_tools, held)
         THEN MOVE_COST + CHANGE_GEAR_COST
         ELSE 0

\* edge_weight that charges a change of gear without the move.
edge_weight_no_move(held, current_tools, tool) ==
    IF tool = held
    THEN MOVE_COST
    ELSE IF contains(current_tools, tool)
         THEN CHANGE_GEAR_COST
         ELSE 0

\* Lines 111-115: the weight of the edge added from a node holding `held`, whose
\* own region permits current_tools, to a neighbour's node of `tool`; 0 for none.
edge_weight(held, current_tools, tool) ==
    IF tool = held
    THEN MOVE_COST
    ELSE IF contains(current_tools, tool)
         THEN MOVE_COST + CHANGE_GEAR_COST
         ELSE 0

\* The loop over the neighbour's tools, lines 104-116, from s = [m, edges, i].
RECURSIVE tool_loop(_, _, _, _, _, _)
tool_loop(s, g, node, current_tools, neighbour, tools) ==
    IF s.i > Len(tools)
    THEN s
    ELSE LET tool == tools[s.i]
             n == find_node(g.first, <<neighbour[1], neighbour[2], tool>>)
             w == edge_weight(g.nodes[node][3], current_tools, tool)
         IN  tool_loop([m |-> s.m,
                        edges |-> IF n = 0 \/ w = 0
                                  THEN s.edges
                                  ELSE Append(s.edges, <<node, n, w>>),
                        i |-> s.i + 1],
                       g, node, current_tools, neighbour, tools)

\* The loop over the neighbours, lines 101-117, from s = [m, edges, k].
RECURSIVE neighbour_loop(_, _, _, _, _)
neighbour_loop(s, g, node, current_tools, neighbours) ==
    IF s.k > Len(neighbours)
    THEN s
    ELSE LET r == get_region_type(s.m, neighbours[s.k])
             t == tool_loop([m |-> r.m, edges |-> s.edges, i |-> 1], g, node,
                            current_tools, neighbours[s.k], get_tools(r.val))
         IN  neighbour_loop([m |-> t.m, edges |-> t.edges, k |-> s.k + 1],
                            g, node, current_tools, neighbours)

\* One iteration of for node in graph.node_indices(), lines 97-117.
node_edges(m, es, g, node) ==
    LET coords == g.nodes[node]
        c == get_region_type(m, <<coords[1], coords[2]>>)
    IN  neighbour_loop([m |-> c.m, edges |-> es, k |-> 1], g, node, get_tools(c.val),
                       get_neighbours(<<coords[1], coords[2]>>))

\* for node in graph.node_indices(): the iterations s.node..hi in order, from the
\* loop state s = [m, edges, node]; the range is halved to keep the evaluation shallow.
RECURSIVE edge_loop(_, _, _)
edge_loop(s, g, hi) ==
    IF s.node > hi
    THEN s
    ELSE IF s.node = hi
         THEN LET n == node_edges(s.m, s.edges, g, s.node)
              IN  [m |-> n.m, edges |-> n.edges, node |-> s.node + 1]
         ELSE edge_loop(edge_loop(s, g, (s.node + hi) \div 2), g, hi)

build_graph(m, b) ==
    LET n == node_rows([m |-> m, g |-> [nodes |-> <<>>, first |-> <<>>], x |-> 0], b)
        e == edge_loop([m |-> n.m, edges |-> <<>>, node |-> 1], n.g, Len(n.g.nodes))
    IN  [m |-> e.m, nodes |-> n.g.nodes, first |-> n.g.first, edges |-> e.edges]

------------------------------------------------------------------------------
(* State. *)

Self == [regions |-> regions, erosion_levels |-> erosion_levels]

NoCall == [op |-> "none", from |-> <<0, 0>>, to |-> <<0, 0>>]
NoRet == [outcome |-> "none", value |-> 0]
NoPrev == [bound |-> <<0, 0>>, outcome |-> "none", value |-> 0]
Empty == <<>>

Depths == (0 .. MaxDepth) \cup {EROSION_MODULUS + 1}
Targets == (0 .. MaxTarget) \X (0 .. MaxTarget)

\* Map::new
new(d, t) ==
    /\ depth = d
    /\ target = t
    /\ regions = Empty
    /\ erosion_levels = Empty

Idle ==
    /\ pc = "idle"
    /\ call = NoCall
    /\ ret = NoRet
    /\ bound = <<0, 0>>
    /\ nodes = <<>>
    /\ first = Empty
    /\ edges = <<>>
    /\ zero_index = 0
    /\ target_index = 0
    /\ scores = Empty
    /\ visited = {}
    /\ visit_next = {}
    /\ prev = NoPrev

Init ==
    /\ \E d \in Depths, t \in Targets : new(d, t)
    /\ Idle

GetRiskLevel(from, to) ==
    /\ pc = "idle"
    /\ LET r == get_risk_level(Self, from, to)
       IN  /\ regions' = r.m.regions
           /\ erosion_levels' = r.m.erosion_levels
           /\ ret' = [outcome |-> "ok", value |-> r.risk_level]
    /\ call' = [op |-> "get_risk_level", from |-> from, to |-> to]
    /\ pc' = "returned"
    /\ UNCHANGED <<depth, target, bound, nodes, first, edges, zero_index,
                   target_index, scores, visited, visit_next, prev>>

\* find_distance_to_target, line 77: let graph = self.build_graph();
BuildGraph(b) ==
    /\ pc = "idle"
    /\ LET g == build_graph(Self, b)
       IN  /\ regions' = g.m.regions
           /\ erosion_levels' = g.m.erosion_levels
           /\ nodes' = g.nodes
           /\ first' = g.first
           /\ edges' = g.edges
    /\ bound' = b
    /\ call' = [op |-> "find_distance_to_target", from |-> <<0, 0>>, to |-> target]
    /\ pc' = "built"
    /\ UNCHANGED <<depth, target, ret, zero_index, target_index, scores, visited,
                   visit_next, prev>>

\* FindEndpoints with unwrap_or(first node) for unwrap().
FindEndpointsOrFirst ==
    /\ pc = "built"
    /\ LET z == find_node(first, <<0, 0, "Torch">>)
           t == find_node(first, <<target[1], target[2], "Torch">>)
       IN  /\ pc' = "search"
           /\ zero_index' = IF z = 0 THEN 1 ELSE z
           /\ target_index' = IF t = 0 THEN 1 ELSE t
           /\ scores' = (zero_index' :> 0)
           /\ visit_next' = {<<0, zero_index'>>}
           /\ UNCHANGED ret
    /\ UNCHANGED <<depth, target, regions, erosion_levels, call, bound, nodes, first,
                   edges, visited, prev>>

\* Lines 79-81: the two find(..).unwrap() and the start of dijkstra
\* (scores.insert(start, 0); visit_next.push(MinScored(0, start))).
FindEndpoints ==
    /\ pc = "built"
    /\ LET z == find_node(first, <<0, 0, "Torch">>)
           t == find_node(first, <<target[1], target[2], "Torch">>)
       IN  IF z = 0
           THEN /\ pc' = "panicked"
                /\ ret' = [outcome |-> "panic", value |-> 79]
                /\ UNCHANGED <<zero_index, target_index, scores, visit_next>>
           ELSE IF t = 0
           THEN /\ pc' = "panicked"
                /\ ret' = [outcome |-> "panic", value |-> 80]
                /\ zero_index' = z
                /\ UNCHANGED <<target_index, scores, visit_next>>
           ELSE /\ pc' = "search"
                /\ zero_index' = z
                /\ target_index' = t
                /\ scores' = (z :> 0)
                /\ visit_next' = {<<0, z>>}
                /\ UNCHANGED ret
    /\ UNCHANGED <<depth, target, regions, erosion_levels, call, bound, nodes, first,
                   edges, visited, prev>>

\* graph.edges(node) of an undirected graph: <<next, weight>> for every edge at node.
edges_of(es, node) ==
    {<<es[i][2], es[i][3]>> : i \in {j \in 1..Len(es) : es[j][1] = node}}
        \cup {<<es[i][1], es[i][3]>> : i \in {j \in 1..Len(es) : es[j][2] = node}}

\* visit_next.pop(): an entry of least score; among equal scores, the heap's order
\* is fixed here as the order of the node indices.
pop_min(heap) ==
    CHOOSE e \in heap : \A f \in heap : e[1] < f[1] \/ (e[1] = f[1] /\ e[2] <= f[2])

\* The for loop of dijkstra over the edges of node: every unvisited next whose
\* score is vacant or improves gets the least next_score on offer.
relaxed(sc, vis, out, node_score) ==
    LET better == {e \in out : /\ e[1] \notin vis
                                /\ (e[1] \in DOMAIN sc => node_score + e[2] < sc[e[1]])}
        ends == {e[1] : e \in better}
        least(n) == CHOOSE w \in {e[2] : e \in {f \in better : f[1] = n}} :
                        \A e \in better : e[1] = n => w <= e[2]
    IN  [n \in ends |-> node_score + least(n)]

\* One iteration of while let Some(MinScored(node_score, node)) = visit_next.pop(),
\* on s = [scores, visited, visit_next, broke].
pop_step(s, es, goal) ==
    LET top == pop_min(s.visit_next)
        node_score == top[1]
        node == top[2]
        rest == s.visit_next \ {top}
    IN  IF node \in s.visited
        THEN [s EXCEPT !.visit_next = rest]
        ELSE IF node = goal
        THEN [s EXCEPT !.visit_next = rest, !.broke = TRUE]
        ELSE LET pushed == relaxed(s.scores, s.visited, edges_of(es, node), node_score)
             IN  [scores |-> pushed @@ s.scores,
                  visited |-> s.visited \cup {node},
                  visit_next |-> rest \cup {<<pushed[n], n>> : n \in DOMAIN pushed},
                  broke |-> FALSE]

\* The iterations that pop the entries of one score.
RECURSIVE pop_round(_, _, _, _)
pop_round(s, es, goal, score) ==
    IF s.broke \/ s.visit_next = {} \/ pop_min(s.visit_next)[1] # score
    THEN s
    ELSE pop_round(pop_step(s, es, goal), es, goal, score)

\* The while loop of dijkstra, a round of it: the least score in the heap and every
\* entry of that score, until the goal is popped.
DijkstraRound ==
    /\ pc = "search"
    /\ visit_next # {}
    /\ LET s == pop_round([scores |-> scores, visited |-> visited,
                           visit_next |-> visit_next, broke |-> FALSE],
                          edges, target_index, pop_min(visit_next)[1])
       IN  /\ scores' = s.scores
           /\ visited' = s.visited
           /\ visit_next' = s.visit_next
           /\ pc' = IF s.broke THEN "break" ELSE "search"
    /\ UNCHANGED <<depth, target, regions, erosion_levels, call, ret, bound, nodes,
                   first, edges, zero_index, target_index, prev>>

\* Line 82, once the loop has ended: distances[&target_index]; graph is dropped.
FindDistanceReturn ==
    /\ \/ pc = "break"
       \/ pc = "search" /\ visit_next = {}
    /\ IF target_index \in DOMAIN scores
       THEN /\ pc' = "returned"
            /\ ret' = [outcome |-> "ok", value |-> scores[target_index]]
       ELSE /\ pc' = "panicked"
            /\ ret' = [outcome |-> "panic", value |-> 82]
    /\ nodes' = <<>>
    /\ first' = Empty
    /\ edges' = <<>>
    /\ zero_index' = 0
    /\ target_index' = 0
    /\ scores' = Empty
    /\ visited' = {}
    /\ visit_next' = {}
    /\ UNCHANGED <<depth, target, regions, erosion_levels, call, bound, prev>>

\* main, lines 10 and 13: the caller takes the value and goes on.
Resume ==
    /\ pc = "returned"
    /\ pc' = "idle"
    /\ prev' = IF call.op = "find_distance_to_target"
               THEN [bound |-> bound, outcome |-> ret.outcome, value |-> ret.value]
               ELSE prev
    /\ call' = NoCall
    /\ ret' = NoRet
    /\ bound' = <<0, 0>>
    /\ UNCHANGED <<depth, target, regions, erosion_levels, nodes, first, edges,
                   zero_index, target_index, scores, visited, visit_next>>

Search ==
    \/ FindEndpoints
    \/ DijkstraRound
    \/ FindDistanceReturn
    \/ Resume

------------------------------------------------------------------------------
(* The program on small maps: any calls, in any order, the risk asked between *)
(* the corners of the rectangle from the origin to the target.               *)

Corners == {<<0, 0>>, <<target[1], 0>>, <<0, target[2]>>, target}

Next ==
    \/ \E from \in Corners, to \in Corners : GetRiskLevel(from, to)
    \/ BuildGraph(Bound)
    \/ Search

Spec == Init /\ [][Next]_vars

------------------------------------------------------------------------------
(* The reference map of main.rs:6, depth 510 and target (10, 10). *)

InitRef ==
    /\ new(RefDepth, <<RefTargetX, RefTargetY>>)
    /\ Idle

NextRef ==
    \/ \E from \in {<<0, 0>>, target}, to \in {<<0, 0>>, target} : GetRiskLevel(from, to)
    \/ BuildGraph(Bound)
    \/ Search

SpecRef == InitRef /\ [][NextRef]_vars

------------------------------------------------------------------------------
(* Small maps with the graph built over any bound that holds the target. *)

\* The bound of the program, and the target grown along one axis or along both
\* by the same amount.
Grown == {g \in (0..MaxGrow) \X (0..MaxGrow) : g[1] = g[2] \/ 0 \in {g[1], g[2]}}
Bounds == {Bound} \cup {<<target[1] + g[1], target[2] + g[2]>> : g \in Grown}

NextBound ==
    \/ \E b \in Bounds : BuildGraph(b)
    \/ Search

SpecBound == Init /\ [][NextBound]_vars
------------------------------------------------------------------------------
(* Vocabulary of the properties. *)

NodeIndices == 1..Len(nodes)
NodeSet == {nodes[i] : i \in NodeIndices}
EdgeSet == {edges[k] : k \in 1..Len(edges)}
GraphBuilt == pc \in {"built", "search", "break"}
FindCall == call.op = "find_distance_to_target"
RiskCall == call.op = "get_risk_level"
Malformed(from, to) == from[1] > to[1] \/ from[2] > to[2]
StartLabel == <<0, 0, "Torch">>
GoalLabel == <<target[1], target[2], "Torch">>
WetDepth == (depth % 20183) % 3 = 1

\* The tool a region type excludes, and the two it permits.
Disallowed(region_type) ==
    CASE region_type = "Rocky" -> "None"
      [] region_type = "Wet" -> "Torch"
      [] region_type = "Narrow" -> "ClimbingGear"
Permitted(region_type) == {"Torch", "ClimbingGear", "None"} \ {Disallowed(region_type)}

\* The tabulated first index is what a scan of the node list finds.
FirstIndexIsFind ==
    /\ DOMAIN first = NodeSet
    /\ \A i \in NodeIndices :
          first[nodes[i]] = CHOOSE j \in NodeIndices :
                               /\ nodes[j] = nodes[i]
                               /\ \A h \in 1..(j - 1) : nodes[h] # nodes[i]

------------------------------------------------------------------------------
(* C1: on the map of depth 510 and target (10, 10), find_distance_to_target  *)
(* searches the graph built over 0..=30 on both axes from the node           *)
(* ((0,0), Torch) to the node ((10,10), Torch), does not panic, and returns  *)
(* 45.                                                                       *)
C1_DistanceIs45 ==
    /\ pc # "panicked"
    /\ pc \in {"search", "break"} =>
          /\ bound = <<30, 30>>
          /\ nodes[zero_index] = <<0, 0, "Torch">>
          /\ nodes[target_index] = <<10, 10, "Torch">>
    /\ pc = "returned" /\ FindCall => ret = [outcome |-> "ok", value |-> 45]

C1_Witness ==
    pc = "returned" /\ FindCall /\ ret.outcome = "ok" /\ ret.value = 45

(* C2: on the map of depth 510 and target (10, 10), get_risk_level((0,0),    *)
(* (10,10)) returns 114, having taken the region type of each of the 121     *)
(* cells of the inclusive rectangle.                                         *)
C2_RiskIs114 ==
    pc = "returned" /\ RiskCall /\ call.from = <<0, 0>> /\ call.to = <<10, 10>> =>
        /\ ret = [outcome |-> "ok", value |-> 114]
        /\ (0..10) \X (0..10) \subseteq DOMAIN regions

C2_Witness ==
    /\ pc = "returned" /\ RiskCall /\ call.from = <<0, 0>> /\ call.to = <<10, 10>>
    /\ ret.value = 114
    /\ Cardinality({c \in DOMAIN regions : c[1] <= 10 /\ c[2] <= 10}) = 121

(* C3, as claimed: get_risk_level over a malformed range (from.x > to.x or   *)
(* from.y > to.y) is rejected with an error and returns no number.           *)
C3_MalformedRejected ==
    pc = "returned" /\ RiskCall /\ Malformed(call.from, call.to) => ret.outcome # "ok"

(* C3, amended: get_risk_level over a malformed range returns 0, the sum of  *)
(* no cell, and raises no error.                                             *)
C3_MalformedIsZero ==
    /\ pc = "returned" /\ RiskCall /\ Malformed(call.from, call.to) =>
          ret = [outcome |-> "ok", value |-> 0]
    /\ pc = "panicked" => FindCall

C3_Witness ==
    /\ pc = "returned" /\ RiskCall /\ Malformed(call.from, call.to)
    /\ ret.value = 0
    /\ \E c \in DOMAIN regions : regions[c] # "Rocky"

(* C4: when the node ((0,0), Torch) or the node (target, Torch) is absent    *)
(* from the graph build_graph returned, find_distance_to_target panics: its  *)
(* next step leaves no distance and no sentinel, only the panic.             *)
C4_AbsentPanics ==
    [][pc = "built" /\ (StartLabel \notin NodeSet \/ GoalLabel \notin NodeSet) =>
            /\ pc' = "panicked"
            /\ ret'.outcome = "panic"
            /\ scores' = Empty]_vars

C4_Witness ==
    pc = "panicked" /\ FindCall /\ StartLabel \notin NodeSet /\ ret.outcome = "panic"

(* C5: with depth and target fixed, a distance query over a bound that is    *)
(* componentwise at least the bound of the previous query, both holding the  *)
(* target, returns a distance, and one no larger than the previous query's.  *)
C5_BoundMonotone ==
    /\ GraphBuilt => bound[1] >= target[1] /\ bound[2] >= target[2]
    /\ ( /\ pc = "returned" /\ FindCall
         /\ prev.outcome = "ok"
         /\ prev.bound[1] <= bound[1] /\ prev.bound[2] <= bound[2] )
       => ret.outcome = "ok" /\ ret.value <= prev.value

C5_Witness ==
    /\ pc = "returned" /\ FindCall
    /\ prev.outcome = "ok"
    /\ prev.bound[1] <= bound[1] /\ prev.bound[2] <= bound[2]
    /\ prev.bound # bound
    /\ ret.value < prev.value

\* The coordinate of a node, the coordinates of the graph, the forward neighbours.
Cell(i) == <<nodes[i][1], nodes[i][2]>>
Cells == (0..bound[1]) \X (0..bound[2])
Forward(c) == {<<c[1] + 1, c[2]>>, <<c[1], c[2] + 1>>} \cap Cells
Joining(a, b) == {e \in EdgeSet : {e[1], e[2]} = {a, b}}

(* C6, as claimed: in the graph build_graph returns, the two nodes of every  *)
(* coordinate inside the bound are joined by exactly one edge, of weight 8.  *)
C6_InPlaceEdge ==
    pc = "built" =>
        \A a \in NodeIndices, b \in NodeIndices :
            a < b /\ Cell(a) = Cell(b) => Joining(a, b) \in {{<<a, b, 8>>}, {<<b, a, 8>>}}

(* C6, amended: in the graph build_graph returns, no edge joins the two      *)
(* nodes of a coordinate; every edge joins nodes of two different            *)
(* coordinates, and its weight is 8 (1 + 7) exactly when their tools differ, *)
(* 1 otherwise.                                                              *)
C6_NoInPlaceEdge ==
    pc = "built" =>
        /\ \A a \in NodeIndices, b \in NodeIndices : Cell(a) = Cell(b) => Joining(a, b) = {}
        /\ \A e \in EdgeSet : e[3] = IF nodes[e[1]][3] = nodes[e[2]][3] THEN 1 ELSE 8

C6_Witness ==
    /\ pc = "built"
    /\ \E a \in NodeIndices, b \in NodeIndices : a < b /\ Cell(a) = Cell(b)
    /\ \E e \in EdgeSet : e[3] = 8

\* The graph has, from every node a to every node of a forward neighbour inside the
\* bound, exactly the edge of weight W(held tool, a's coordinate, the neighbour, the
\* neighbour's tool), none where W is 0, and no edge added twice.
EdgesAre(W(_, _, _, _)) ==
    /\ Cardinality(EdgeSet) = Len(edges)
    /\ \A a \in NodeIndices : \A n \in Forward(Cell(a)) : \A t2 \in Permitted(regions[n]) :
          \E b \in NodeIndices :
              /\ nodes[b] = <<n[1], n[2], t2>>
              /\ Joining(a, b) = LET w == W(nodes[a][3], Cell(a), n, t2)
                                 IN  IF w = 0 THEN {} ELSE {<<a, b, w>>}

\* Weight 8 when the tool held at c is permitted at the neighbour n.
WeightAsClaimed(t, c, n, t2) ==
    IF t2 = t THEN 1 ELSE IF t \in Permitted(regions[n]) THEN 8 ELSE 0

\* Weight 8 when the neighbour's tool is permitted at c.
WeightAsBuilt(t, c, n, t2) ==
    IF t2 = t THEN 1 ELSE IF t2 \in Permitted(regions[c]) THEN 8 ELSE 0

(* C7, as claimed: for every node (c, t), forward neighbour n of c inside    *)
(* the bound and tool t2 permitted at n, the edge (c, t)-(n, t2) has weight  *)
(* 1 if t2 = t, else weight 8 exactly when t is permitted at n, else there   *)
(* is no edge.                                                               *)
C7_EdgeWhenHeldPermittedAtNeighbour ==
    pc = "built" => EdgesAre(WeightAsClaimed)

(* C7, amended: for every node (c, t), forward neighbour n of c inside the   *)
(* bound and tool t2 permitted at n, the edge (c, t)-(n, t2) has weight 1 if *)
(* t2 = t, else weight 8 exactly when t2 (the neighbour's tool) is permitted *)
(* at c, else there is no edge.                                              *)
C7_EdgeWhenNeighbourToolPermittedHere ==
    pc = "built" => EdgesAre(WeightAsBuilt)

C7_Witness ==
    /\ pc = "built"
    /\ \E e \in EdgeSet :
          /\ e[3] = 8
          /\ Cell(e[2]) \in Forward(Cell(e[1]))
          /\ nodes[e[1]][3] \notin Permitted(regions[Cell(e[2])])
          /\ nodes[e[2]][3] \in Permitted(regions[Cell(e[1])])

(* C8: the nodes of the graph build_graph returns are exactly the (x, y,     *)
(* tool) with 0 <= x <= 3 * target.x, 0 <= y <= 3 * target.y and tool one of *)
(* the two tools the region type of (x, y) permits: two nodes for every such *)
(* coordinate, and never the tool its region type excludes.                  *)
C8_NodesArePermittedStates ==
    GraphBuilt =>
        LET within == (0..(3 * target[1])) \X (0..(3 * target[2]))
        IN  /\ NodeSet = UNION {{<<c[1], c[2], t>> : t \in Permitted(regions[c])} : c \in within}
            /\ Len(nodes) = 2 * Cardinality(within)
            /\ \A c \in within : Cardinality({i \in NodeIndices : Cell(i) = c}) = 2
            /\ \A i \in NodeIndices : nodes[i][3] # Disallowed(regions[Cell(i)])

C8_Witness ==
    /\ pc = "built"
    /\ target[1] > 0 /\ target[2] > 0
    /\ \A r \in {"Rocky", "Wet", "Narrow"} : \E i \in NodeIndices : regions[Cell(i)] = r

(* C9: whatever calls came before, every memoised erosion level is (g +      *)
(* depth) mod 20183, with g = 0 at the target (on an axis too) and at (0,0), *)
(* y * 48271 where x = 0, x * 16807 where y = 0, and the product of the      *)
(* memoised levels of (x-1, y) and (x, y-1) elsewhere; every memoised region *)
(* type is the one of its level mod 3 (0 Rocky, 1 Wet, 2 Narrow).            *)
C9_CachesFollowRecurrence ==
    /\ \A c \in DOMAIN erosion_levels :
          LET g == IF c = target \/ c = <<0, 0>> THEN 0
                   ELSE IF c[1] = 0 THEN c[2] * 48271
                   ELSE IF c[2] = 0 THEN c[1] * 16807
                   ELSE erosion_levels[<<c[1] - 1, c[2]>>] * erosion_levels[<<c[1], c[2] - 1>>]
          IN  erosion_levels[c] = (g + depth) % 20183
    /\ \A c \in DOMAIN regions :
          /\ c \in DOMAIN erosion_levels
          /\ regions[c] = CASE erosion_levels[c] % 3 = 0 -> "Rocky"
                            [] erosion_levels[c] % 3 = 1 -> "Wet"
                            [] erosion_levels[c] % 3 = 2 -> "Narrow"

C9_Witness ==
    /\ pc = "returned" /\ RiskCall /\ prev.outcome = "ok"
    /\ target[1] = 0 /\ target[2] > 0
    /\ target \in DOMAIN erosion_levels
    /\ erosion_levels[target] # (target[2] * 48271 + depth) % 20183
    /\ \E c \in DOMAIN erosion_levels : c[1] > 0 /\ c[2] > 0

(* C10: (0,0) and the target both have the erosion level depth mod 20183, so *)
(* the nodes ((0,0), Torch) and (target, Torch) are both in the built graph  *)
(* or both missing; they are missing, and find_distance_to_target panics on  *)
(* the start node (line 79), exactly when (depth mod 20183) mod 3 = 1.       *)
C10_StartAndGoalTogether ==
    /\ \A c \in {<<0, 0>>, target} \cap DOMAIN erosion_levels :
          erosion_levels[c] = depth % 20183
    /\ GraphBuilt \/ pc = "panicked" =>
          /\ StartLabel \in NodeSet <=> GoalLabel \in NodeSet
          /\ StartLabel \in NodeSet <=> ~WetDepth
    /\ pc = "panicked" => WetDepth /\ ret = [outcome |-> "panic", value |-> 79]
    /\ pc \in {"search", "break"} \/ (pc = "returned" /\ FindCall) => ~WetDepth

C10_Witness ==
    /\ pc = "panicked" /\ ret.value = 79
    /\ depth > 20183 /\ depth % 3 # 1
    /\ target # <<0, 0>>
    /\ GoalLabel \notin NodeSet /\ StartLabel \notin NodeSet
====
